---- MODULE Spec2Model ----
(***************************************************************************)
(* Model of cryptorand.h (mackron/cryptorand): cryptorand_init,            *)
(* cryptorand_uninit and cryptorand_generate over the three builds the     *)
(* preprocessor can produce (CRYPTORAND_WIN32, CRYPTORAND_URANDOM, none),  *)
(* together with the operating system services they call.  Every call of   *)
(* the public API is one atomic action; the outcome of each OS service is  *)
(* chosen by the environment.                                              *)
(***************************************************************************)
EXTENDS Integers, Sequences, FiniteSets, TLC

\* ---------------------------------------------------------------- bounds
\* Number of resources (modules, provider handles, files) the OS hands out
\* in one behaviour; once reached, every further acquisition fails.
MaxResources == 4
\* Largest "small" byte count requested from cryptorand_generate.
MaxSmallLen == 1
\* Number of bytes the caller's buffer may extend beyond byteCount.
MaxSlack == 1

\* ------------------------------------------------------ program constants
CRYPTORAND_SUCCESS == 0
CRYPTORAND_ERROR == -1
CRYPTORAND_INVALID_ARGS == -2
CRYPTORAND_INVALID_OPERATION == -3
CRYPTORAND_TOO_BIG == -11
CRYPTORAND_NOT_IMPLEMENTED == -29

NULL == 0

\* With(e, F) is F(e) with e evaluated once, before F is applied.
With(e, F(_)) == CHOOSE y \in {F(x) : x \in {e}} : TRUE

\* ----------------------------------------------------------- wide numbers
\* A size_t value n is held as the pair <<n \div 2^16, n % 2^16>>, so that
\* byte counts on both sides of 0xFFFFFFFF are computed with exactly.
LimbBase == 2^16
W(i) == <<i \div LimbBase, i % LimbBase>>
WLess(a, b) == a[1] < b[1] \/ (a[1] = b[1] /\ a[2] < b[2])
WLeq(a, b) == a = b \/ WLess(a, b)
WAdd(a, b) == <<a[1] + b[1] + ((a[2] + b[2]) \div LimbBase), (a[2] + b[2]) % LimbBase>>
\* a - b for b <= a.
WSub(a, b) == IF a[2] >= b[2] THEN <<a[1] - b[1], a[2] - b[2]>>
              ELSE <<a[1] - b[1] - 1, a[2] + LimbBase - b[2]>>
WMin(a, b) == IF WLess(a, b) THEN a ELSE b

\* 0xFFFFFFFF, the largest value of ULONG / DWORD, the length parameter of
\* the Win32 services.
ULONG_MAX == <<LimbBase - 1, LimbBase - 1>>
\* (ULONG)n and (DWORD)n: the low 32 bits of n.
ULONG(n) == <<n[1] % LimbBase, n[2]>>

\* Bit patterns that are no address the OS ever handed out.
GarbageWords == {999}
\* Bytes the caller fills the buffer with before a call.
SentinelBytes == {170}
\* Bytes an OS service stores into the buffer (one value per call).
OsBytes == {92}
\* Addresses of caller buffers.
BufferAddrs == {500}

Platforms == {"win32", "urandom", "none"}

\* The members of the cryptorand struct, in declaration order, per build.
Win32Fields == <<"hBcryptDLL", "BCryptOpenAlgorithmProvider",
                 "BCryptCloseAlgorithmProvider", "BCryptGenRandom", "hAlgorithm",
                 "hAdvapiDLL", "CryptAcquireContextW", "CryptReleaseContext",
                 "CryptGenRandom", "hProvider">>
UrandomFields == <<"pFile">>
FieldOrder(p) == IF p = "win32" THEN Win32Fields
                 ELSE IF p = "urandom" THEN UrandomFields ELSE <<>>
Fields(p) == {FieldOrder(p)[i] : i \in 1..Len(FieldOrder(p))}

ModernFields == {Win32Fields[i] : i \in 1..5}
LegacyFields == {Win32Fields[i] : i \in 6..10}

\* The address GetProcAddress returns for an exported name.
ProcAddress(name) ==
    CASE name = "BCryptOpenAlgorithmProvider"  -> 201
      [] name = "BCryptCloseAlgorithmProvider" -> 202
      [] name = "BCryptGenRandom"              -> 203
      [] name = "CryptAcquireContextW"         -> 204
      [] name = "CryptReleaseContext"          -> 205
      [] name = "CryptGenRandom"               -> 206

\* The address of a function the program is linked against.
ImportAddress(name) ==
    CASE name = "LoadLibraryW"   -> 301
      [] name = "GetProcAddress" -> 302
      [] name = "FreeLibrary"    -> 303
      [] name = "fopen"          -> 304
      [] name = "fclose"         -> 305
      [] name = "fread"          -> 306

\* ------------------------------------------------------- the byte buffer
\* A buffer is a run-length encoded byte array: a sequence of runs
\* [len, val], len a wide number > 0, adjacent runs of different value.
Fill(n, v) == IF n = W(0) THEN <<>> ELSE <<[len |-> n, val |-> v]>>

RECURSIVE Size(_)
Size(b) == IF b = <<>> THEN W(0) ELSE WAdd(Head(b).len, Size(Tail(b)))

RECURSIVE DropBytes(_, _)
DropBytes(b, n) ==
    IF n = W(0) \/ b = <<>> THEN b
    ELSE IF WLeq(Head(b).len, n) THEN DropBytes(Tail(b), WSub(n, Head(b).len))
    ELSE <<[len |-> WSub(Head(b).len, n), val |-> Head(b).val]>> \o Tail(b)

RECURSIVE TakeBytes(_, _)
TakeBytes(b, n) ==
    IF n = W(0) \/ b = <<>> THEN <<>>
    ELSE IF WLeq(Head(b).len, n)
         THEN <<Head(b)>> \o TakeBytes(Tail(b), WSub(n, Head(b).len))
    ELSE <<[len |-> n, val |-> Head(b).val]>>

RECURSIVE Norm(_)
Norm(b) ==
    IF Len(b) < 2 THEN b
    ELSE IF b[1].val = b[2].val
         THEN Norm(<<[len |-> WAdd(b[1].len, b[2].len), val |-> b[1].val]>> \o Tail(Tail(b)))
         ELSE <<b[1]>> \o Norm(Tail(b))

\* Store n bytes of value v at offset 0 of buffer b (n <= Size(b)).
WriteBytes(b, n, v) == Norm(Fill(n, v) \o DropBytes(b, n))

\* memset((p), 0, (sz)) on a byte buffer.
CRYPTORAND_ZERO_MEMORY(p, sz) == WriteBytes(p, sz, 0)

AllBytes(b, n, v) == \A i \in 1..Len(TakeBytes(b, n)) : TakeBytes(b, n)[i].val = v

\* ------------------------------------------------------ the struct object
\* CRYPTORAND_ZERO_OBJECT expanding to nothing: the object keeps its content.
CRYPTORAND_ZERO_OBJECT_skipped(o) == o

\* sizeof(o) in place of sizeof(*o): only the first pointer is cleared.
ZeroFirstMemberOnly(o) ==
    [f \in DOMAIN o |-> IF f \in {"hBcryptDLL", "pFile"} THEN NULL ELSE o[f]]

\* memset((o), 0, sizeof(*o)) on the struct (or on its win32 member).
CRYPTORAND_ZERO_OBJECT(o) == [f \in DOMAIN o |-> NULL]

IsZero(o) == \A f \in DOMAIN o : o[f] = NULL

\* ------------------------------------------------- operating system model
\* The OS state is the sequence of resources it has handed out; a handle is
\* the index of its resource.  closes counts the close/unload calls made on
\* it, owner is the cryptorand instance whose call acquired it.
Resource(kind, owner) == [kind |-> kind, closes |-> 0, owner |-> owner]

IsHandle(o, h) == h \in 1..Len(o)
IsLive(o, h) == IsHandle(o, h) /\ o[h].closes = 0

CanAcquire(o) == Len(o) < MaxResources
Acquire(o, kind, owner) == Append(o, Resource(kind, owner))
Close(o, h) == IF IsHandle(o, h) THEN [o EXCEPT ![h].closes = @ + 1] ELSE o

\* One call of an OS service: the function meant, the address called, the
\* handle and the length passed (a wide number), the value returned,
\* whether the handle passed was a live resource when the call was made
\* (TRUE when the service takes no handle), the number of bytes the call
\* stored into the caller's buffer, and the value its handle out parameter
\* holds on return (NULL when the service has none).
Call(fn, ptr, h, len, ret, live, stored, out) ==
    [fn |-> fn, ptr |-> ptr, h |-> h, len |-> len, ret |-> ret, live |-> live,
     stored |-> stored, out |-> out]

\* HMODULE LoadLibraryW(name): want is the environment's choice.
LoadLibraryW(o, name, want, owner) ==
    LET ok == want /\ CanAcquire(o)
        h == IF ok THEN Len(o) + 1 ELSE NULL
    IN [os |-> IF ok THEN Acquire(o, name, owner) ELSE o,
        ret |-> h,
        call |-> Call("LoadLibraryW:" \o name, ImportAddress("LoadLibraryW"), NULL, W(0),
                      h, TRUE, W(0), NULL)]

\* FARPROC GetProcAddress(hModule, name).
GetProcAddress(o, hModule, name, ok) ==
    LET a == IF ok THEN ProcAddress(name) ELSE NULL
    IN [ret |-> a,
        call |-> Call("GetProcAddress:" \o name, ImportAddress("GetProcAddress"),
                      hModule, W(0), a, IsLive(o, hModule), W(0), NULL)]

\* BCryptOpenAlgorithmProvider(&h, ...) and CryptAcquireContextW(&h, ...),
\* called through the resolved address ptr.  how is "ok" (a new handle is
\* stored), "fail" (the out parameter is left alone) or "junk" (the failing
\* call stored the word junk into the out parameter).  The call returns
\* retOk on success and retFail on failure (an NTSTATUS, resp. a BOOL).
OpenHandle(o, fn, kind, ptr, old, how, junk, owner, retOk, retFail) ==
    LET ok == how = "ok" /\ CanAcquire(o)
        out == IF ok THEN Len(o) + 1 ELSE IF how = "junk" THEN junk ELSE old
        ret == IF ok THEN retOk ELSE retFail
    IN [os |-> IF ok THEN Acquire(o, kind, owner) ELSE o,
        out |-> out,
        ret |-> ret,
        call |-> Call(fn, ptr, NULL, W(0), ret, TRUE, W(0), out)]

\* A close / release / unload call on handle h through address ptr.
CloseHandle(o, fn, ptr, h) ==
    [os |-> Close(o, h), call |-> Call(fn, ptr, h, W(0), 0, IsLive(o, h), W(0), NULL)]

\* A generate / read call asked for len bytes: stores k bytes of value byte
\* at the start of the buffer; ret is what the service returns.
FillBuffer(o, b, fn, ptr, h, len, k, byte, ret) ==
    [buf |-> WriteBytes(b, k, byte), ret |-> ret,
     call |-> Call(fn, ptr, h, len, ret, IsLive(o, h), k, NULL)]

\* What the environment can decide about one probe of a Win32 service:
\* whether the DLL loads, which of the three entry points resolve (all, or
\* all but one), and how the open / acquire call ends.
ProbeOutcomes ==
    {[load |-> FALSE, r |-> <<TRUE, TRUE, TRUE>>, open |-> "ok", junk |-> j] :
              j \in GarbageWords}
    \cup {[load |-> TRUE, r |-> q, open |-> "ok", junk |-> j] :
              q \in {<<TRUE, TRUE, TRUE>>, <<FALSE, TRUE, TRUE>>, <<TRUE, FALSE, TRUE>>,
                     <<TRUE, TRUE, FALSE>>},
              j \in GarbageWords}
    \cup {[load |-> TRUE, r |-> <<TRUE, TRUE, TRUE>>, open |-> w, junk |-> j] :
              w \in {"fail", "junk"}, j \in GarbageWords}

ProbeSucceeds(e) == e.load /\ e.r = <<TRUE, TRUE, TRUE>> /\ e.open = "ok"

\* ------------------------------------------------------------ Win32 build
\* The BCrypt block of cryptorand_init__win32 once LoadLibraryW has returned
\* ll; ok means the block returned CRYPTORAND_SUCCESS.
ProbeBCryptLoaded(r, ll, e, owner) ==
    IF ll.ret # NULL
    THEN With([g1 |-> GetProcAddress(ll.os, ll.ret, "BCryptOpenAlgorithmProvider", e.r[1]),
               g2 |-> GetProcAddress(ll.os, ll.ret, "BCryptCloseAlgorithmProvider", e.r[2]),
               g3 |-> GetProcAddress(ll.os, ll.ret, "BCryptGenRandom", e.r[3])],
         LAMBDA g :
           With([rng |-> [r EXCEPT !.hBcryptDLL = ll.ret,
                                   !.BCryptOpenAlgorithmProvider = g.g1.ret,
                                   !.BCryptCloseAlgorithmProvider = g.g2.ret,
                                   !.BCryptGenRandom = g.g3.ret],
                 log |-> <<ll.call, g.g1.call, g.g2.call, g.g3.call>>],
           LAMBDA s :
             IF s.rng.BCryptOpenAlgorithmProvider # NULL
                /\ s.rng.BCryptCloseAlgorithmProvider # NULL
                /\ s.rng.BCryptGenRandom # NULL
             THEN With(OpenHandle(ll.os, "BCryptOpenAlgorithmProvider", "hAlgorithm",
                                  s.rng.BCryptOpenAlgorithmProvider, s.rng.hAlgorithm,
                                  e.open, e.junk, owner, 0, 1),
                  LAMBDA op :
                    [rng |-> [s.rng EXCEPT !.hAlgorithm = op.out], os |-> op.os,
                     log |-> Append(s.log, op.call), ok |-> op.ret = 0])
             ELSE [rng |-> s.rng, os |-> ll.os, log |-> s.log, ok |-> FALSE]))
    ELSE [rng |-> r, os |-> ll.os, log |-> <<ll.call>>, ok |-> FALSE]

\* The BCrypt block of cryptorand_init__win32.
ProbeBCrypt(r, o, e, owner) ==
    With(LoadLibraryW(o, "bcrypt.dll", e.load, owner),
         LAMBDA ll : ProbeBCryptLoaded(r, ll, e, owner))

\* The CryptoAPI block of cryptorand_init__win32 once LoadLibraryW has
\* returned ll.
ProbeAdvapiLoaded(r, ll, e, owner) ==
    IF ll.ret # NULL
    THEN With([g1 |-> GetProcAddress(ll.os, ll.ret, "CryptAcquireContextW", e.r[1]),
               g2 |-> GetProcAddress(ll.os, ll.ret, "CryptReleaseContext", e.r[2]),
               g3 |-> GetProcAddress(ll.os, ll.ret, "CryptGenRandom", e.r[3])],
         LAMBDA g :
           With([rng |-> [r EXCEPT !.hAdvapiDLL = ll.ret,
                                   !.CryptAcquireContextW = g.g1.ret,
                                   !.CryptReleaseContext = g.g2.ret,
                                   !.CryptGenRandom = g.g3.ret],
                 log |-> <<ll.call, g.g1.call, g.g2.call, g.g3.call>>],
           LAMBDA s :
             IF s.rng.CryptAcquireContextW # NULL
                /\ s.rng.CryptReleaseContext # NULL
                /\ s.rng.CryptGenRandom # NULL
             THEN With(OpenHandle(ll.os, "CryptAcquireContextW", "hProvider",
                                  s.rng.CryptAcquireContextW, s.rng.hProvider,
                                  e.open, e.junk, owner, 1, 0),
                  LAMBDA op :
                    [rng |-> [s.rng EXCEPT !.hProvider = op.out], os |-> op.os,
                     log |-> Append(s.log, op.call), ok |-> op.ret # 0])
             ELSE [rng |-> s.rng, os |-> ll.os, log |-> s.log, ok |-> FALSE]))
    ELSE [rng |-> r, os |-> ll.os, log |-> <<ll.call>>, ok |-> FALSE]

\* The CryptoAPI block of cryptorand_init__win32.
ProbeAdvapi(r, o, e, owner) ==
    With(LoadLibraryW(o, "advapi32.dll", e.load, owner),
         LAMBDA ll : ProbeAdvapiLoaded(r, ll, e, owner))

\* What cryptorand_init__win32 returns after its two blocks returned m and l.
Win32Outcome(m, l) ==
    IF l.ok
    THEN [rng |-> l.rng, os |-> l.os, log |-> m.log \o l.log,
          result |-> CRYPTORAND_SUCCESS]
    ELSE [rng |-> CRYPTORAND_ZERO_OBJECT(l.rng), os |-> l.os,
          log |-> m.log \o l.log, result |-> CRYPTORAND_ERROR]

\* cryptorand_init__win32 with the second CRYPTORAND_ZERO_OBJECT left out.
cryptorand_init__win32_keepsModern(r, o, env, owner) ==
    With(ProbeBCrypt(CRYPTORAND_ZERO_OBJECT(r), o, env.modern, owner),
    LAMBDA m :
      IF m.ok
      THEN [rng |-> m.rng, os |-> m.os, log |-> m.log, result |-> CRYPTORAND_SUCCESS]
      ELSE With(ProbeAdvapi(m.rng, m.os, env.legacy, owner),
           LAMBDA l : Win32Outcome(m, l)))

\* cryptorand_init__win32 with the two blocks in the opposite order.
cryptorand_init__win32_legacyFirst(r, o, env, owner) ==
    With(ProbeAdvapi(CRYPTORAND_ZERO_OBJECT(r), o, env.modern, owner),
    LAMBDA m :
      IF m.ok
      THEN [rng |-> m.rng, os |-> m.os, log |-> m.log, result |-> CRYPTORAND_SUCCESS]
      ELSE With(ProbeBCrypt(CRYPTORAND_ZERO_OBJECT(m.rng), m.os, env.legacy, owner),
           LAMBDA l : Win32Outcome(m, l)))

\* cryptorand_init__win32: env.modern and env.legacy are the environment's
\* outcomes of the two probes (the second is consulted only if reached).
cryptorand_init__win32(r, o, env, owner) ==
    With(ProbeBCrypt(CRYPTORAND_ZERO_OBJECT(r), o, env.modern, owner),
    LAMBDA m :
      IF m.ok
      THEN [rng |-> m.rng, os |-> m.os, log |-> m.log, result |-> CRYPTORAND_SUCCESS]
      ELSE With(ProbeAdvapi(CRYPTORAND_ZERO_OBJECT(m.rng), m.os, env.legacy, owner),
           LAMBDA l : Win32Outcome(m, l)))

\* The close / release call of cryptorand_uninit__win32 (its first if).
CloseActive(r, o) ==
    IF r.hAlgorithm # NULL
    THEN With(CloseHandle(o, "BCryptCloseAlgorithmProvider",
                          r.BCryptCloseAlgorithmProvider, r.hAlgorithm),
              LAMBDA c : [os |-> c.os, log |-> <<c.call>>])
    ELSE IF r.hProvider # NULL
    THEN With(CloseHandle(o, "CryptReleaseContext", r.CryptReleaseContext, r.hProvider),
              LAMBDA c : [os |-> c.os, log |-> <<c.call>>])
    ELSE [os |-> o, log |-> <<>>]

\* if (h != NULL) FreeLibrary(h), after the calls of u.
FreeIfLoaded(u, h) ==
    IF h # NULL
    THEN With(CloseHandle(u.os, "FreeLibrary", ImportAddress("FreeLibrary"), h),
              LAMBDA c : [os |-> c.os, log |-> Append(u.log, c.call)])
    ELSE u

\* cryptorand_uninit__win32 with the two FreeLibrary calls moved in front of
\* the close / release call.
cryptorand_uninit__win32_unloadsFirst(r, o) ==
    With(FreeIfLoaded([os |-> o, log |-> <<>>], r.hBcryptDLL),
    LAMBDA u1 : With(FreeIfLoaded(u1, r.hAdvapiDLL),
    LAMBDA u2 : With(CloseActive(r, u2.os),
    LAMBDA c : [os |-> c.os, log |-> u2.log \o c.log])))

\* cryptorand_uninit__win32.
cryptorand_uninit__win32(r, o) ==
    With(CloseActive(r, o),
    LAMBDA u1 : With(FreeIfLoaded(u1, r.hBcryptDLL),
    LAMBDA u2 : FreeIfLoaded(u2, r.hAdvapiDLL)))

\* The dispatch of cryptorand_generate__win32 after its size check.  g is
\* the environment's outcome of the OS call: whether it reports success
\* and, if not, how many bytes it stored before failing; g.byte is the byte
\* value it stores.
GenRandomDispatch(r, o, b, byteCount, g) ==
    IF r.hAlgorithm # NULL
    THEN With(FillBuffer(o, b, "BCryptGenRandom", r.BCryptGenRandom, r.hAlgorithm,
                         ULONG(byteCount),
                         IF g.ok THEN ULONG(byteCount) ELSE WMin(g.k, ULONG(byteCount)),
                         g.byte, IF g.ok THEN 0 ELSE 1),
         LAMBDA c :
           [rng |-> r, buf |-> c.buf, log |-> <<c.call>>,
            result |-> IF c.ret # 0 THEN CRYPTORAND_ERROR ELSE CRYPTORAND_SUCCESS])
    ELSE IF r.hProvider # NULL
    THEN With(FillBuffer(o, b, "CryptGenRandom", r.CryptGenRandom, r.hProvider,
                         ULONG(byteCount),
                         IF g.ok THEN ULONG(byteCount) ELSE WMin(g.k, ULONG(byteCount)),
                         g.byte, IF g.ok THEN 1 ELSE 0),
         LAMBDA c :
           [rng |-> r, buf |-> c.buf, log |-> <<c.call>>,
            result |-> IF c.ret = 0 THEN CRYPTORAND_ERROR ELSE CRYPTORAND_SUCCESS])
    ELSE [rng |-> r, buf |-> b, log |-> <<>>, result |-> CRYPTORAND_SUCCESS]

\* cryptorand_generate__win32 with the size check left out.
cryptorand_generate__win32_unchecked(r, o, b, byteCount, g) ==
    GenRandomDispatch(r, o, b, byteCount, g)

\* cryptorand_generate__win32.
cryptorand_generate__win32(r, o, b, byteCount, g) ==
    IF WLess(ULONG_MAX, byteCount)
    THEN [rng |-> r, buf |-> b, log |-> <<>>, result |-> CRYPTORAND_TOO_BIG]
    ELSE GenRandomDispatch(r, o, b, byteCount, g)

\* ---------------------------------------------------------- urandom build
\* FILE* fopen(name, mode): want is the environment's choice.
fopen(o, name, want, owner) ==
    LET ok == want /\ CanAcquire(o)
        h == IF ok THEN Len(o) + 1 ELSE NULL
    IN [os |-> IF ok THEN Acquire(o, name, owner) ELSE o,
        ret |-> h,
        call |-> Call("fopen", ImportAddress("fopen"), NULL, W(0), h, TRUE, W(0), NULL)]

\* cryptorand_init__urandom.
cryptorand_init__urandom(r, o, want, owner) ==
    With(fopen(o, "/dev/urandom", want, owner),
    LAMBDA f :
      With([r EXCEPT !.pFile = f.ret],
      LAMBDA r1 :
        [rng |-> r1, os |-> f.os, log |-> <<f.call>>,
         result |-> IF r1.pFile = NULL THEN CRYPTORAND_ERROR ELSE CRYPTORAND_SUCCESS]))

\* cryptorand_uninit__urandom without its check of pFile against NULL.
cryptorand_uninit__urandom_unguarded(r, o) ==
    With(CloseHandle(o, "fclose", ImportAddress("fclose"), r.pFile),
         LAMBDA c : [os |-> c.os, log |-> <<c.call>>])

\* cryptorand_uninit__urandom closing the FILE opened last by the program
\* (one static FILE* shared by all objects) in place of the object's own.
cryptorand_uninit__urandom_closesLatest(r, o) ==
    IF r.pFile = NULL
    THEN [os |-> o, log |-> <<>>]
    ELSE With(CloseHandle(o, "fclose", ImportAddress("fclose"), Len(o)),
              LAMBDA c : [os |-> c.os, log |-> <<c.call>>])

\* cryptorand_uninit__urandom.
cryptorand_uninit__urandom(r, o) ==
    IF r.pFile = NULL
    THEN [os |-> o, log |-> <<>>]
    ELSE With(CloseHandle(o, "fclose", ImportAddress("fclose"), r.pFile),
              LAMBDA c : [os |-> c.os, log |-> <<c.call>>])

\* cryptorand_generate__urandom forgetting the device (pFile = NULL) when
\* the read comes back short.
cryptorand_generate__urandom_dropsDevice(r, o, b, byteCount, g) ==
    IF r.pFile = NULL
    THEN [rng |-> r, buf |-> b, log |-> <<>>, result |-> CRYPTORAND_INVALID_OPERATION]
    ELSE With(IF g.ok THEN byteCount ELSE WMin(g.k, byteCount),
         LAMBDA bytesRead :
           With(FillBuffer(o, b, "fread", ImportAddress("fread"), r.pFile, byteCount,
                           bytesRead, g.byte, bytesRead),
           LAMBDA c :
             IF WLess(c.ret, byteCount)
             THEN [rng |-> [r EXCEPT !.pFile = NULL], buf |-> c.buf, log |-> <<c.call>>,
                   result |-> CRYPTORAND_ERROR]
             ELSE [rng |-> r, buf |-> c.buf, log |-> <<c.call>>,
                   result |-> CRYPTORAND_SUCCESS]))

\* cryptorand_generate__urandom reading a second time for the bytes a short
\* read left out, and failing only when nothing at all was read.
cryptorand_generate__urandom_retries(r, o, b, byteCount, g) ==
    IF r.pFile = NULL
    THEN [rng |-> r, buf |-> b, log |-> <<>>, result |-> CRYPTORAND_INVALID_OPERATION]
    ELSE With(IF g.ok THEN byteCount ELSE WMin(g.k, byteCount),
         LAMBDA bytesRead :
           With(FillBuffer(o, b, "fread", ImportAddress("fread"), r.pFile, byteCount,
                           bytesRead, g.byte, bytesRead),
           LAMBDA c :
             IF WLess(c.ret, byteCount) /\ WLess(W(0), c.ret)
             THEN With(FillBuffer(o, c.buf, "fread", ImportAddress("fread"), r.pFile,
                                  WSub(byteCount, c.ret), W(0), g.byte, W(0)),
                  LAMBDA d : [rng |-> r, buf |-> d.buf, log |-> <<c.call, d.call>>,
                              result |-> CRYPTORAND_ERROR])
             ELSE [rng |-> r, buf |-> c.buf, log |-> <<c.call>>,
                   result |-> IF WLess(c.ret, byteCount) THEN CRYPTORAND_ERROR
                              ELSE CRYPTORAND_SUCCESS]))

\* cryptorand_generate__urandom: fread returns the number of bytes it
\* stored, byteCount when g.ok and at most g.k otherwise.
cryptorand_generate__urandom(r, o, b, byteCount, g) ==
    IF r.pFile = NULL
    THEN [rng |-> r, buf |-> b, log |-> <<>>, result |-> CRYPTORAND_INVALID_OPERATION]
    ELSE With(IF g.ok THEN byteCount ELSE WMin(g.k, byteCount),
         LAMBDA bytesRead :
           With(FillBuffer(o, b, "fread", ImportAddress("fread"), r.pFile, byteCount,
                           bytesRead, g.byte, bytesRead),
           LAMBDA c :
             [rng |-> r, buf |-> c.buf, log |-> <<c.call>>,
              result |-> IF WLess(c.ret, byteCount) THEN CRYPTORAND_ERROR
                         ELSE CRYPTORAND_SUCCESS]))

\* ------------------------------------------------------------- public API
\* cryptorand_init releasing what the object holds before it zeroes it.
cryptorand_init_releasesFirst(p, pRNG, r, o, env) ==
    IF pRNG = NULL
    THEN [rng |-> r, os |-> o, log |-> <<>>, result |-> CRYPTORAND_INVALID_ARGS]
    ELSE With(IF p = "win32" THEN cryptorand_uninit__win32(r, o)
              ELSE IF p = "urandom" THEN cryptorand_uninit__urandom(r, o)
              ELSE [os |-> o, log |-> <<>>],
         LAMBDA u :
           With(CRYPTORAND_ZERO_OBJECT(r),
           LAMBDA r0 :
             With(IF p = "win32" THEN cryptorand_init__win32(r0, u.os, env, pRNG)
                  ELSE IF p = "urandom"
                  THEN cryptorand_init__urandom(r0, u.os, env.fopen, pRNG)
                  ELSE [rng |-> r0, os |-> u.os, log |-> <<>>,
                        result |-> CRYPTORAND_NOT_IMPLEMENTED],
             LAMBDA i :
               IF i.result # CRYPTORAND_SUCCESS
               THEN [i EXCEPT !.rng = CRYPTORAND_ZERO_OBJECT(i.rng)]
               ELSE i)))

\* cryptorand_init on build p.  pRNG is NULL or the address of the object
\* whose content is r.
cryptorand_init(p, pRNG, r, o, env) ==
    IF pRNG = NULL
    THEN [rng |-> r, os |-> o, log |-> <<>>, result |-> CRYPTORAND_INVALID_ARGS]
    ELSE With(CRYPTORAND_ZERO_OBJECT(r),
         LAMBDA r0 :
           With(IF p = "win32" THEN cryptorand_init__win32(r0, o, env, pRNG)
                ELSE IF p = "urandom" THEN cryptorand_init__urandom(r0, o, env.fopen, pRNG)
                ELSE [rng |-> r0, os |-> o, log |-> <<>>,
                      result |-> CRYPTORAND_NOT_IMPLEMENTED],
           LAMBDA i :
             IF i.result # CRYPTORAND_SUCCESS
             THEN [i EXCEPT !.rng = CRYPTORAND_ZERO_OBJECT(i.rng)]
             ELSE i))

\* cryptorand_uninit with the final CRYPTORAND_ZERO_OBJECT left out.
cryptorand_uninit_keepsFields(p, pRNG, r, o) ==
    IF pRNG = NULL
    THEN [rng |-> r, os |-> o, log |-> <<>>]
    ELSE With(IF p = "win32" THEN cryptorand_uninit__win32(r, o)
              ELSE IF p = "urandom" THEN cryptorand_uninit__urandom(r, o)
              ELSE [os |-> o, log |-> <<>>],
         LAMBDA u : [rng |-> r, os |-> u.os, log |-> u.log])

\* cryptorand_uninit on build p.
cryptorand_uninit(p, pRNG, r, o) ==
    IF pRNG = NULL
    THEN [rng |-> r, os |-> o, log |-> <<>>]
    ELSE With(IF p = "win32" THEN cryptorand_uninit__win32(r, o)
              ELSE IF p = "urandom" THEN cryptorand_uninit__urandom(r, o)
              ELSE [os |-> o, log |-> <<>>],
         LAMBDA u : [rng |-> CRYPTORAND_ZERO_OBJECT(r), os |-> u.os, log |-> u.log])

\* cryptorand_generate with the CRYPTORAND_ZERO_MEMORY on failure left out.
cryptorand_generate_keepsBuffer(p, pRNG, r, o, pBufferOut, b, byteCount, g) ==
    IF pRNG = NULL \/ pBufferOut = NULL
    THEN [rng |-> r, buf |-> b, log |-> <<>>, result |-> CRYPTORAND_INVALID_ARGS]
    ELSE IF p = "win32" THEN cryptorand_generate__win32(r, o, b, byteCount, g)
    ELSE IF p = "urandom" THEN cryptorand_generate__urandom(r, o, b, byteCount, g)
    ELSE [rng |-> r, buf |-> b, log |-> <<>>, result |-> CRYPTORAND_NOT_IMPLEMENTED]

\* cryptorand_generate on build p.  b is the content of the caller's buffer
\* (unused when pBufferOut is NULL).
cryptorand_generate(p, pRNG, r, o, pBufferOut, b, byteCount, g) ==
    IF pRNG = NULL \/ pBufferOut = NULL
    THEN [rng |-> r, buf |-> b, log |-> <<>>, result |-> CRYPTORAND_INVALID_ARGS]
    ELSE With(IF p = "win32" THEN cryptorand_generate__win32(r, o, b, byteCount, g)
              ELSE IF p = "urandom" THEN cryptorand_generate__urandom(r, o, b, byteCount, g)
              ELSE [rng |-> r, buf |-> b, log |-> <<>>, result |-> CRYPTORAND_NOT_IMPLEMENTED],
         LAMBDA x :
           IF x.result # CRYPTORAND_SUCCESS
           THEN [x EXCEPT !.buf = CRYPTORAND_ZERO_MEMORY(x.buf, byteCount)]
           ELSE x)

\* ---------------------------------------------------------- state machine
VARIABLES
    platform,    \* the build: which of the #if branches were compiled
    sources,     \* the cryptorand objects of the caller
    rng,         \* rng[s]: the fields of object s
    defined,     \* defined[s]: object s no longer holds indeterminate memory
    os,          \* the resources the OS has handed out
    op,          \* the last API call: "none", "init", "uninit", "generate"
    src,         \* the object the caller made it for
    pRNG,        \* its pRNG argument (NULL or src)
    rngBefore,   \* the fields of object src when it was called
    pBufferOut,  \* generate: its buffer argument (NULL after other calls)
    byteCount,   \* generate: its byteCount argument
    bufBefore,   \* generate: the buffer when it was called
    buf,         \* generate: the buffer when it returned
    result,      \* the value it returned (CRYPTORAND_SUCCESS stands in for void)
    log          \* the OS calls the last API call made, in order

vars == <<platform, sources, rng, defined, os, op, src, pRNG, rngBefore,
          pBufferOut, byteCount, bufBefore, buf, result, log>>

\* Contents an object can have before the first call: zeroed by the caller,
\* or indeterminate memory.
PriorContents(p) ==
    {[f \in Fields(p) |-> NULL]}
    \cup {[f \in Fields(p) |-> w] : w \in GarbageWords}
    \cup {[f \in Fields(p) |-> IF f \in ModernFields THEN NULL ELSE w] : w \in GarbageWords}

InitFor(S) ==
    /\ platform \in Platforms
    /\ sources = S
    /\ rng \in [S -> PriorContents(platform)]
    /\ defined = [s \in S |-> IsZero(rng[s])]
    /\ os = <<>>
    /\ op = "none"
    /\ src = CHOOSE s \in S : TRUE
    /\ pRNG = NULL
    /\ rngBefore = rng[src]
    /\ pBufferOut = NULL
    /\ byteCount = W(0)
    /\ bufBefore = <<>>
    /\ buf = <<>>
    /\ result = CRYPTORAND_SUCCESS
    /\ log = <<>>

Init == InitFor({1})

InitEnvs(p) ==
    IF p = "win32"
    THEN {[modern |-> m, legacy |-> l, fopen |-> TRUE] :
              m \in ProbeOutcomes, l \in ProbeOutcomes}
         \ {[modern |-> m, legacy |-> l, fopen |-> TRUE] :
              m \in {e \in ProbeOutcomes : ProbeSucceeds(e)},
              l \in ProbeOutcomes \ {CHOOSE e \in ProbeOutcomes : TRUE}}
    ELSE IF p = "urandom"
    THEN {[modern |-> m, legacy |-> m, fopen |-> f] :
              m \in {CHOOSE e \in ProbeOutcomes : TRUE}, f \in BOOLEAN}
    ELSE {[modern |-> m, legacy |-> m, fopen |-> TRUE] :
              m \in {CHOOSE e \in ProbeOutcomes : TRUE}}

\* The caller calls cryptorand_init(ptr) with ptr one of ptrs (NULL or &s);
\* the environment decides the outcome of the OS calls it makes, one of envs.
InitializeWith(s, ptrs, envs) ==
    \E ptr \in ptrs :
      \E env \in IF ptr = NULL THEN {CHOOSE e \in envs : TRUE} ELSE envs :
        \E i \in {cryptorand_init(platform, ptr, rng[s], os, env)} :
           /\ rng' = [rng EXCEPT ![s] = i.rng]
           /\ defined' = [defined EXCEPT ![s] = @ \/ ptr # NULL]
           /\ os' = i.os
           /\ op' = "init"
           /\ src' = s
           /\ pRNG' = ptr
           /\ rngBefore' = rng[s]
           /\ result' = i.result
           /\ log' = i.log
           /\ pBufferOut' = NULL
           /\ byteCount' = W(0)
           /\ bufBefore' = <<>>
           /\ buf' = <<>>
           /\ UNCHANGED <<platform, sources>>

\* The caller calls cryptorand_init(NULL) or cryptorand_init(&s).
Initialize(s) == InitializeWith(s, {NULL, s}, InitEnvs(platform))

\* The caller calls cryptorand_uninit(ptr).  Passing an object of
\* indeterminate content is outside the API's use.
Release(s) ==
    \E ptr \in {NULL, s} :
        \E u \in {cryptorand_uninit(platform, ptr, rng[s], os)} :
           /\ ptr # NULL => defined[s]
           /\ rng' = [rng EXCEPT ![s] = u.rng]
           /\ os' = u.os
           /\ op' = "uninit"
           /\ src' = s
           /\ pRNG' = ptr
           /\ rngBefore' = rng[s]
           /\ log' = u.log
           /\ result' = CRYPTORAND_SUCCESS
           /\ pBufferOut' = NULL
           /\ byteCount' = W(0)
           /\ bufBefore' = <<>>
           /\ buf' = <<>>
           /\ UNCHANGED <<platform, sources, defined>>

\* The byte counts the caller asks for: small ones and the ones around the
\* limit of a 32-bit length.
ByteCounts ==
    {W(i) : i \in 0..MaxSmallLen} \cup {ULONG_MAX, WAdd(ULONG_MAX, W(MaxSmallLen))}

\* The outcomes of the OS generate / read call for a request of n bytes:
\* it succeeds, or fails after storing 0, 1, n - 1 or n bytes.
GenOutcomes(n) ==
    {[ok |-> TRUE, k |-> n, byte |-> v] : v \in OsBytes}
    \cup {[ok |-> FALSE, k |-> k, byte |-> v] :
              k \in {j \in {W(0), W(1), n} : WLeq(j, n)}
                    \cup (IF n = W(0) THEN {} ELSE {WSub(n, W(1))}),
              v \in OsBytes}

\* The caller calls cryptorand_generate(ptr, out, n), with ptr, out and n
\* taken from ptrs, outs and counts, on a buffer of n bytes, or n plus one of
\* slacks, that it has filled with one byte value; the OS call ends in one
\* of outcomes[n].
GenerateWith(s, ptrs, outs, counts, slacks, outcomes) ==
    \E ptr \in ptrs, out \in outs, n \in counts, fill \in SentinelBytes :
      \E slack \in IF out = NULL THEN {0} ELSE slacks,
         g \in IF ptr = NULL \/ out = NULL
               THEN {CHOOSE e \in outcomes[n] : TRUE} ELSE outcomes[n] :
        \E b \in {IF out = NULL THEN <<>> ELSE Fill(WAdd(n, W(slack)), fill)} :
          \E x \in {cryptorand_generate(platform, ptr, rng[s], os, out, b, n, g)} :
           /\ ptr # NULL => defined[s]
           /\ op' = "generate"
           /\ src' = s
           /\ pRNG' = ptr
           /\ rngBefore' = rng[s]
           /\ pBufferOut' = out
           /\ byteCount' = n
           /\ bufBefore' = b
           /\ buf' = x.buf
           /\ result' = x.result
           /\ log' = x.log
           /\ rng' = [rng EXCEPT ![s] = x.rng]
           /\ UNCHANGED <<platform, sources, defined, os>>

\* The caller calls cryptorand_generate on object s or on NULL, with a buffer
\* or with NULL, for each of ByteCounts.
Generate(s) ==
    GenerateWith(s, {NULL, s}, {NULL} \cup BufferAddrs, ByteCounts, {0, MaxSlack},
                 [n \in ByteCounts |-> GenOutcomes(n)])

Next == \E s \in sources : Initialize(s) \/ Release(s) \/ Generate(s)

Spec == Init /\ [][Next]_vars

\* ------------------------------------------------------------- properties
\* The last call was op on a valid object.
Called(o) == op = o /\ pRNG # NULL

\* Call fn occurs in the log l / the value its first occurrence returned.
HasCall(l, fn) == \E i \in 1..Len(l) : l[i].fn = fn
RetOf(l, fn) == l[CHOOSE i \in 1..Len(l) : l[i].fn = fn].ret
Returned(l, fn, v) == HasCall(l, fn) /\ RetOf(l, fn) = v
ReturnedNonNull(l, fn) == HasCall(l, fn) /\ RetOf(l, fn) # NULL

\* The states of an object.
Uninitialized(r) == IsZero(r)
PrimaryActive(r) ==
    /\ platform = "win32"
    /\ \A f \in ModernFields : r[f] # NULL
    /\ \A f \in LegacyFields : r[f] = NULL
FallbackActive(r) ==
    /\ platform = "win32"
    /\ \A f \in LegacyFields : r[f] # NULL
    /\ \A f \in ModernFields : r[f] = NULL
DeviceActive(r) == platform = "urandom" /\ r.pFile # NULL

\* C1: whenever generate, called with non-null source and buffer, returns a
\* result other than Success, the byteCount bytes of the buffer are all zero
\* on return (and the buffer has kept its size), whatever it held before and
\* whatever the OS call stored into it.
C1_FailureZeroesBuffer ==
    (Called("generate") /\ pBufferOut # NULL /\ result # CRYPTORAND_SUCCESS)
        => (AllBytes(buf, byteCount, 0) /\ Size(buf) = Size(bufBefore))

\* C1 witness: an OS generate / read call stored some bytes into a buffer of
\* sentinel bytes and failed.
C1_Witness ==
    /\ Called("generate") /\ pBufferOut # NULL /\ result = CRYPTORAND_ERROR
    /\ Len(log) = 1 /\ WLess(W(0), log[1].stored)
    /\ \E v \in SentinelBytes : AllBytes(bufBefore, byteCount, v)

\* C2: generate called with a null source and a non-null buffer returns
\* InvalidArgs and has zeroed the byteCount bytes of the buffer.
C2_InvalidArgsZeroesBuffer ==
    (op = "generate" /\ pRNG = NULL /\ pBufferOut # NULL)
        => (result = CRYPTORAND_INVALID_ARGS /\ AllBytes(buf, byteCount, 0))

\* C3: on the Win32 and the urandom build, generate called with a non-null
\* buffer and byteCount <= 0xFFFFFFFF on an object whose fields are all zero
\* returns InvalidOperation and leaves the byteCount bytes zeroed.
C3_ZeroSourceInvalidOperation ==
    (Called("generate") /\ pBufferOut # NULL /\ platform \in {"win32", "urandom"}
       /\ WLeq(byteCount, ULONG_MAX) /\ IsZero(rngBefore))
        => (result = CRYPTORAND_INVALID_OPERATION /\ AllBytes(buf, byteCount, 0))

\* C4: generate returns Success only if during the call the backend was
\* asked exactly once, for exactly byteCount bytes, and stored all of them.
C4_SuccessMeansFilled ==
    (op = "generate" /\ result = CRYPTORAND_SUCCESS)
        => (Len(log) = 1 /\ log[1].len = byteCount /\ log[1].stored = byteCount)

\* C5: whenever initialize, called with a non-null source, returns a failure
\* code, every field of the source is zero on return.
C5_FailedInitZeroesFields ==
    (Called("init") /\ result # CRYPTORAND_SUCCESS) => IsZero(rng[src])

\* C5 witness: initialize of an object holding garbage failed on the Win32
\* build after the legacy probe had loaded its module and resolved its
\* entry points.
C5_Witness ==
    /\ Called("init") /\ result = CRYPTORAND_ERROR /\ platform = "win32"
    /\ ~IsZero(rngBefore)
    /\ ReturnedNonNull(log, "LoadLibraryW:advapi32.dll")
    /\ HasCall(log, "CryptAcquireContextW")

\* C6: between calls every object that has been zeroed, initialized or
\* released is in exactly one of the states uninitialized, primary-active,
\* fallback-active, device-active; after a successful initialize it is in one
\* of the three active states and its handles are resources of the OS.
C6_ExactlyOneState ==
    /\ \A s \in sources : defined[s] =>
          Cardinality({k \in 1..4 :
              \/ k = 1 /\ Uninitialized(rng[s])
              \/ k = 2 /\ PrimaryActive(rng[s])
              \/ k = 3 /\ FallbackActive(rng[s])
              \/ k = 4 /\ DeviceActive(rng[s])}) = 1
    /\ (Called("init") /\ result = CRYPTORAND_SUCCESS) =>
          \/ PrimaryActive(rng[src])
               /\ IsLive(os, rng[src].hBcryptDLL) /\ IsLive(os, rng[src].hAlgorithm)
          \/ FallbackActive(rng[src])
               /\ IsLive(os, rng[src].hAdvapiDLL) /\ IsLive(os, rng[src].hProvider)
          \/ DeviceActive(rng[src]) /\ IsLive(os, rng[src].pFile)

\* C6 witness: initialize succeeded through the legacy service after the
\* modern probe had loaded its module and failed.
C6_Witness ==
    /\ Called("init") /\ result = CRYPTORAND_SUCCESS
    /\ FallbackActive(rng[src])
    /\ ReturnedNonNull(log, "LoadLibraryW:bcrypt.dll")

\* C7: release on a zeroed source makes no OS call and leaves all fields
\* zero; every release leaves all fields zero, and no resource is ever closed
\* more than once.
C7_ReleaseIdempotent ==
    /\ Called("uninit") => IsZero(rng[src])
    /\ (Called("uninit") /\ IsZero(rngBefore)) => log = <<>>
    /\ \A h \in 1..Len(os) : os[h].closes <= 1

\* C7 witness: release was called on a zeroed source after an earlier
\* release had closed the resources of an initialized one.
C7_Witness ==
    /\ Called("uninit") /\ IsZero(rngBefore) /\ log = <<>>
    /\ \E h \in 1..Len(os) : os[h].closes = 1
    /\ \A h \in 1..Len(os) : os[h].closes = 1

\* C8: on the Win32 build, generate with byteCount > 0xFFFFFFFF returns
\* TooLarge without any OS call and zeroes the destination; with byteCount
\* <= 0xFFFFFFFF the length passed to every OS call equals byteCount.
C8_LengthLimit ==
    (Called("generate") /\ pBufferOut # NULL /\ platform = "win32") =>
        IF WLess(ULONG_MAX, byteCount)
        THEN result = CRYPTORAND_TOO_BIG /\ log = <<>> /\ AllBytes(buf, byteCount, 0)
        ELSE \A i \in 1..Len(log) : log[i].len = byteCount

\* C8 witness: an active source was asked for more than 0xFFFFFFFF bytes.
C8_Witness ==
    /\ Called("generate") /\ pBufferOut # NULL /\ platform = "win32"
    /\ WLess(ULONG_MAX, byteCount)
    /\ PrimaryActive(rngBefore) \/ FallbackActive(rngBefore)
    /\ result = CRYPTORAND_TOO_BIG

\* C9: when initialize returns on the Win32 build, every module it loaded
\* during the call and that is still loaded is the module of the backend it
\* left active: a failed probe has unloaded what it loaded.
C9_FailedProbeUnloads ==
    (Called("init") /\ platform = "win32") =>
        \A i \in 1..Len(log) :
            (log[i].ptr = ImportAddress("LoadLibraryW") /\ log[i].ret # NULL
               /\ IsLive(os, log[i].ret))
                => log[i].ret \in {rng[src].hBcryptDLL, rng[src].hAdvapiDLL}

\* What the log of an initialize call says about its two probes.
ModernProbed(l) == HasCall(l, "LoadLibraryW:bcrypt.dll")
LegacyProbed(l) == HasCall(l, "LoadLibraryW:advapi32.dll")
ModernSucceeded(l) ==
    /\ ReturnedNonNull(l, "LoadLibraryW:bcrypt.dll")
    /\ ReturnedNonNull(l, "GetProcAddress:BCryptOpenAlgorithmProvider")
    /\ ReturnedNonNull(l, "GetProcAddress:BCryptCloseAlgorithmProvider")
    /\ ReturnedNonNull(l, "GetProcAddress:BCryptGenRandom")
    /\ Returned(l, "BCryptOpenAlgorithmProvider", 0)
LegacySucceeded(l) ==
    /\ ReturnedNonNull(l, "LoadLibraryW:advapi32.dll")
    /\ ReturnedNonNull(l, "GetProcAddress:CryptAcquireContextW")
    /\ ReturnedNonNull(l, "GetProcAddress:CryptReleaseContext")
    /\ ReturnedNonNull(l, "GetProcAddress:CryptGenRandom")
    /\ ReturnedNonNull(l, "CryptAcquireContextW")
IsModernCall(c) ==
    c.fn \in {"LoadLibraryW:bcrypt.dll", "GetProcAddress:BCryptOpenAlgorithmProvider",
              "GetProcAddress:BCryptCloseAlgorithmProvider",
              "GetProcAddress:BCryptGenRandom", "BCryptOpenAlgorithmProvider"}

\* C10: initialize on the Win32 build probes the modern service first, and
\* the legacy service exactly when the modern probe failed, after it; it
\* returns Success iff one of the two probes fully succeeded, leaving the
\* first that succeeded active, and the generic error iff both failed.
C10_ProbeOrder ==
    (Called("init") /\ platform = "win32") =>
        /\ ModernProbed(log) /\ IsModernCall(log[1])
        /\ LegacyProbed(log) <=> ~ModernSucceeded(log)
        /\ \A i, j \in 1..Len(log) :
              (IsModernCall(log[i]) /\ ~IsModernCall(log[j])) => i < j
        /\ result = CRYPTORAND_SUCCESS <=> (ModernSucceeded(log) \/ LegacySucceeded(log))
        /\ result # CRYPTORAND_SUCCESS => result = CRYPTORAND_ERROR
        /\ ModernSucceeded(log) => PrimaryActive(rng[src])
        /\ (~ModernSucceeded(log) /\ LegacySucceeded(log)) => FallbackActive(rng[src])

\* C10 witness: the modern probe failed at its open call and initialize
\* returned Success through the legacy service.
C10_Witness ==
    /\ Called("init") /\ platform = "win32" /\ result = CRYPTORAND_SUCCESS
    /\ HasCall(log, "BCryptOpenAlgorithmProvider") /\ ~ModernSucceeded(log)
    /\ LegacySucceeded(log)

\* C11: generate changes no byte of the buffer at offset >= byteCount,
\* whatever it returns; when it returns Success exactly the first byteCount
\* bytes have been written; and a request of 0 bytes on an initialized source
\* returns Success and changes no byte.
C11_WritesExactlyByteCount ==
    (op = "generate" /\ pBufferOut # NULL) =>
        /\ Size(buf) = Size(bufBefore)
        /\ DropBytes(buf, byteCount) = DropBytes(bufBefore, byteCount)
        /\ (Called("generate") /\ result = CRYPTORAND_SUCCESS)
              => (Len(log) = 1 /\ log[1].stored = byteCount)
        /\ (Called("generate") /\ byteCount = W(0) /\ ~IsZero(rngBefore))
              => (result = CRYPTORAND_SUCCESS /\ buf = bufBefore)

\* The close / unload call of service fn made through address ptr on
\* handle h while h was live.
ClosesLive(c, fn, ptr, h) == c.fn = fn /\ c.ptr = ptr /\ c.h = h /\ c.live

\* C13: release on an active Win32 source makes exactly two OS calls, in
\* this order: the close-provider (release-context) call of the active
\* backend, through the entry point and on the handle the source holds, and
\* then the unload of the DLL that provided it; no entry point of the other
\* backend is invoked, both resources are closed afterwards, and every field
\* of the source is zero.
C13_ReleaseOrder ==
    /\ (Called("uninit") /\ PrimaryActive(rngBefore)) =>
          /\ Len(log) = 2
          /\ ClosesLive(log[1], "BCryptCloseAlgorithmProvider",
                        rngBefore.BCryptCloseAlgorithmProvider, rngBefore.hAlgorithm)
          /\ ClosesLive(log[2], "FreeLibrary", ImportAddress("FreeLibrary"),
                        rngBefore.hBcryptDLL)
          /\ ~IsLive(os, rngBefore.hAlgorithm) /\ ~IsLive(os, rngBefore.hBcryptDLL)
          /\ IsZero(rng[src])
    /\ (Called("uninit") /\ FallbackActive(rngBefore)) =>
          /\ Len(log) = 2
          /\ ClosesLive(log[1], "CryptReleaseContext",
                        rngBefore.CryptReleaseContext, rngBefore.hProvider)
          /\ ClosesLive(log[2], "FreeLibrary", ImportAddress("FreeLibrary"),
                        rngBefore.hAdvapiDLL)
          /\ ~IsLive(os, rngBefore.hProvider) /\ ~IsLive(os, rngBefore.hAdvapiDLL)
          /\ IsZero(rng[src])
    /\ (Called("uninit") /\ DeviceActive(rngBefore)) =>
          /\ Len(log) = 1
          /\ ClosesLive(log[1], "fclose", ImportAddress("fclose"), rngBefore.pFile)
          /\ ~IsLive(os, rngBefore.pFile)
          /\ IsZero(rng[src])

\* C13 witness: a source active through the legacy backend has been released.
C13_Witness ==
    /\ Called("uninit") /\ FallbackActive(rngBefore)
    /\ Len(log) = 2 /\ log[1].fn = "CryptReleaseContext" /\ log[2].fn = "FreeLibrary"

\* The backend a resource of the OS belongs to, and the backends of which
\* object s holds a resource it has acquired and not released.
BackendOf(kind) ==
    IF kind \in {"bcrypt.dll", "hAlgorithm"} THEN "modern"
    ELSE IF kind \in {"advapi32.dll", "hProvider"} THEN "legacy"
    ELSE "device"
LiveBackends(o, s) ==
    {BackendOf(o[h].kind) : h \in {i \in 1..Len(o) : IsLive(o, i) /\ o[i].owner = s}}

\* C14: at no point are resources of more than one backend, acquired by one
\* source and not yet released, live at the same time; in particular a
\* source that is active through the legacy backend holds no resource of the
\* modern backend.
C14_OneBackendLive ==
    \A s \in sources :
        /\ Cardinality(LiveBackends(os, s)) <= 1
        /\ FallbackActive(rng[s]) => "modern" \notin LiveBackends(os, s)

\* C15: generate never changes the source: whatever the arguments and
\* whatever it returns, every field of the object holds after the call the
\* value it held before it.
C15_GenerateKeepsSource == op = "generate" => rng[src] = rngBefore

\* C15 witness: generate failed in its OS call on an active source.
C15_Witness ==
    /\ Called("generate") /\ pBufferOut # NULL /\ result = CRYPTORAND_ERROR
    /\ Len(log) = 1 /\ ~IsZero(rngBefore) /\ rng[src] = rngBefore

\* C16: on the entropy-device backend, when the read stores and reports
\* fewer bytes than byteCount (none included), generate returns the generic
\* error, has made that one read and no other OS call, and all byteCount
\* bytes of the buffer are zero on return.
C16_ShortReadIsError ==
    (/\ Called("generate") /\ pBufferOut # NULL /\ platform = "urandom"
     /\ \E i \in 1..Len(log) :
           log[i].fn = "fread" /\ WLess(log[i].ret, log[i].len))
        => /\ result = CRYPTORAND_ERROR
           /\ Len(log) = 1
           /\ log[1].len = byteCount /\ log[1].h = rngBefore.pFile
           /\ AllBytes(buf, byteCount, 0)
           /\ Size(buf) = Size(bufBefore)

\* C16 witness: a read stored some but not all of the bytes asked for into a
\* buffer of sentinel bytes.
C16_Witness ==
    /\ Called("generate") /\ pBufferOut # NULL /\ platform = "urandom"
    /\ Len(log) = 1 /\ log[1].fn = "fread"
    /\ WLess(W(0), log[1].stored) /\ WLess(log[1].stored, byteCount)
    /\ result = CRYPTORAND_ERROR

\* The value the first call of fn in the log l returned, and the value it
\* left in its handle out parameter; NULL when l has no such call.
RetOr(l, fn) == IF HasCall(l, fn) THEN RetOf(l, fn) ELSE NULL
OutOr(l, fn) == IF HasCall(l, fn) THEN l[CHOOSE i \in 1..Len(l) : l[i].fn = fn].out ELSE NULL

\* The result and the fields an initialize call has to end with, as
\* functions of nothing but the build and the outcomes of its OS calls.
ResultOfLog(p, l) ==
    IF p = "win32"
    THEN IF ModernSucceeded(l) \/ LegacySucceeded(l)
         THEN CRYPTORAND_SUCCESS ELSE CRYPTORAND_ERROR
    ELSE IF p = "urandom"
    THEN IF ReturnedNonNull(l, "fopen") THEN CRYPTORAND_SUCCESS ELSE CRYPTORAND_ERROR
    ELSE CRYPTORAND_NOT_IMPLEMENTED
FieldOfLog(l, f) ==
    IF f = "pFile" THEN RetOr(l, "fopen")
    ELSE IF f = "hBcryptDLL" THEN RetOr(l, "LoadLibraryW:bcrypt.dll")
    ELSE IF f = "hAdvapiDLL" THEN RetOr(l, "LoadLibraryW:advapi32.dll")
    ELSE IF f = "hAlgorithm" THEN OutOr(l, "BCryptOpenAlgorithmProvider")
    ELSE IF f = "hProvider" THEN OutOr(l, "CryptAcquireContextW")
    ELSE RetOr(l, "GetProcAddress:" \o f)
FieldsOfLog(p, l) ==
    [f \in Fields(p) |->
        IF \/ ResultOfLog(p, l) # CRYPTORAND_SUCCESS
           \/ f \in ModernFields /\ ~ModernSucceeded(l)
           \/ f \in LegacyFields /\ ModernSucceeded(l)
        THEN NULL ELSE FieldOfLog(l, f)]

\* Every handle and every entry point call i of the log l passes comes from
\* an earlier call of l (or is an import of the program).
PassesOwnValues(l, i) ==
    /\ l[i].h # NULL =>
          \E j \in 1..(i - 1) : l[i].h \in {l[j].ret, l[j].out}
    /\ \/ \E n \in {"LoadLibraryW", "GetProcAddress", "fopen"} : l[i].ptr = ImportAddress(n)
       \/ \E j \in 1..(i - 1) : l[j].ret = l[i].ptr /\ l[j].ptr = ImportAddress("GetProcAddress")

\* C17: initialize is independent of the prior content of the source: its
\* result and the fields it leaves are determined by the outcomes of the OS
\* calls it made, whatever the object held before (zeroes, an active
\* backend or indeterminate memory), and no OS call it makes passes a value
\* it did not obtain in this same call.
C17_InitIgnoresPriorContent ==
    Called("init") =>
        /\ result = ResultOfLog(platform, log)
        /\ rng[src] = FieldsOfLog(platform, log)
        /\ \A i \in 1..Len(log) : PassesOwnValues(log, i)

\* C17 witness: initialize succeeded through the legacy service on an
\* object of indeterminate content.
C17_Witness ==
    /\ Called("init") /\ result = CRYPTORAND_SUCCESS
    /\ \E f \in DOMAIN rngBefore : rngBefore[f] \in GarbageWords
    /\ platform = "win32" /\ LegacySucceeded(log) /\ ~ModernSucceeded(log)

\* The handles object r holds.
HandlesOf(r) ==
    {r[f] : f \in DOMAIN r \cap {"hBcryptDLL", "hAlgorithm", "hAdvapiDLL", "hProvider",
                                 "pFile"}} \ {NULL}

\* C18: on an object that has been through initialize (or was zeroed by the
\* caller), whatever initialize returned, generate and release invoke no
\* null entry point, and every handle they pass to an OS generate, read,
\* close or unload call is non-null, is held by the object, was acquired
\* for it and is still open when the call is made; release leaves every field
\* of the object zero.
C18_CallsPassLiveHandles ==
    /\ (Called("generate") \/ Called("uninit")) =>
          \A i \in 1..Len(log) :
              /\ log[i].ptr # NULL
              /\ log[i].h \in HandlesOf(rngBefore)
              /\ log[i].live
              /\ IsHandle(os, log[i].h) /\ os[log[i].h].owner = src
    /\ Called("uninit") => IsZero(rng[src])

\* C18 witness: release closed the entropy device of an active source, and
\* left the object zeroed.
C18_Witness ==
    /\ Called("uninit") /\ DeviceActive(rngBefore)
    /\ Len(log) = 1 /\ log[1].live /\ IsZero(rng[src])

\* The resources acquired for object s that are open in OS state o, and
\* those of them no field of s (content r) refers to any more.
OpenOf(o, s) == {h \in 1..Len(o) : IsLive(o, h) /\ o[h].owner = s}
Orphans(o, r, s) == OpenOf(o, s) \ HandlesOf(r)

\* C19: initialize on an object that is active does not release what the
\* object holds: the handles it held are still open after the call and no
\* field refers to them any more; a resource the object has lost in this way
\* is closed by no later call; and on the entropy-device build a resource is
\* lost only by an initialize on an active object, so that release leaves
\* nothing open when every initialize was released before the next one.
C19_Step ==
    /\ \A s \in sources : Orphans(os, rng[s], s) \subseteq Orphans(os', rng'[s], s)
    /\ (op' = "init" /\ pRNG' # NULL) =>
          OpenOf(os, src') \cap HandlesOf(rng[src']) \subseteq Orphans(os', rng'[src'], src')
    /\ platform = "urandom" =>
          \A s \in sources :
              /\ Orphans(os', rng'[s], s) # Orphans(os, rng[s], s)
                    => (op' = "init" /\ pRNG' # NULL /\ src' = s /\ DeviceActive(rng[s]))
              /\ (op' = "uninit" /\ pRNG' # NULL /\ src' = s)
                    => OpenOf(os', s) = Orphans(os, rng[s], s)
C19_ReinitLeaks == [][C19_Step]_vars

\* C19 witness: initialize succeeded on an object whose entropy device was
\* open; the earlier FILE is still open and the object holds a new one.
C19_Witness ==
    /\ Called("init") /\ DeviceActive(rngBefore) /\ result = CRYPTORAND_SUCCESS
    /\ IsLive(os, rngBefore.pFile) /\ rng[src].pFile # rngBefore.pFile
    /\ rngBefore.pFile \in Orphans(os, rng[src], src)

\* ---------------------------------------------------------- two instances
\* The caller has two objects, both zeroed before their first use, and calls
\* the API on them in any order, one call at a time.
InitTwo == InitFor({1, 2}) /\ \A s \in sources : IsZero(rng[s])

\* With two objects the caller passes valid pointers only; of the outcomes
\* of the OS calls those are kept that decide which resources an object
\* acquires: a probe succeeds, fails to load its DLL, or loads it and fails
\* to resolve its first entry point; a generate call succeeds or stores
\* nothing.
InitEnvsTwo(p) ==
    {e \in InitEnvs(p) :
        /\ \/ ProbeSucceeds(e.modern) \/ ~e.modern.load
           \/ e.modern.r = <<FALSE, TRUE, TRUE>>
        /\ \/ ProbeSucceeds(e.modern) \/ ProbeSucceeds(e.legacy) \/ ~e.legacy.load}
GenOutcomesTwo(n) == {g \in GenOutcomes(n) : g.ok \/ g.k = W(0)}

InitializeTwo(s) == InitializeWith(s, {s}, InitEnvsTwo(platform))
GenerateTwo(s) ==
    GenerateWith(s, {s}, BufferAddrs, {W(MaxSmallLen)}, {0},
                 [n \in {W(MaxSmallLen)} |-> GenOutcomesTwo(n)])

NextTwo == \E s \in sources : InitializeTwo(s) \/ Release(s) \/ GenerateTwo(s)

SpecTwo == InitTwo /\ [][NextTwo]_vars

\* What object a sees of the OS state o: the resources acquired for it, in
\* the order of their acquisition.  ForOne renames a handle of a to its
\* index among them, in a word, in the fields of an object and in the calls
\* of a log.
ResourcesOf(o, a) == SelectSeq(o, LAMBDA x : x.owner = a)
ForOne(o, a, h) ==
    IF IsHandle(o, h) /\ o[h].owner = a
    THEN Cardinality({i \in 1..h : o[i].owner = a}) ELSE h
FieldsForOne(o, a, r) ==
    [f \in DOMAIN r |->
        IF f \in {"hBcryptDLL", "hAlgorithm", "hAdvapiDLL", "hProvider", "pFile"}
        THEN ForOne(o, a, r[f]) ELSE r[f]]
LogForOne(o, a, l) ==
    [i \in 1..Len(l) |->
        [l[i] EXCEPT !.h = ForOne(o, a, @),
                     !.out = ForOne(o, a, @),
                     !.ret = IF l[i].fn \in {"LoadLibraryW:bcrypt.dll",
                                             "LoadLibraryW:advapi32.dll", "fopen"}
                             THEN ForOne(o, a, @) ELSE @]]

\* The call just made for object a ended as the same call ends, for some
\* outcome of its OS calls, in a program that has no other object: with the
\* same result, the same fields, the same OS calls and the same resources
\* closed, up to the numbering of the handles.
SameAlone(a) ==
    /\ op' = "init" =>
          \E env \in InitEnvs(platform) :
              cryptorand_init(platform, pRNG', FieldsForOne(os', a, rng[a]),
                              ResourcesOf(os, a), env)
                = [rng |-> FieldsForOne(os', a, rng'[a]), os |-> ResourcesOf(os', a),
                   log |-> LogForOne(os', a, log'), result |-> result']
    /\ op' = "uninit" =>
          cryptorand_uninit(platform, pRNG', FieldsForOne(os', a, rng[a]),
                            ResourcesOf(os, a))
            = [rng |-> FieldsForOne(os', a, rng'[a]), os |-> ResourcesOf(os', a),
               log |-> LogForOne(os', a, log')]
    /\ op' = "generate" =>
          \E g \in GenOutcomes(byteCount') :
              cryptorand_generate(platform, pRNG', FieldsForOne(os', a, rng[a]),
                                  ResourcesOf(os, a), pBufferOut', bufBefore',
                                  byteCount', g)
                = [rng |-> FieldsForOne(os', a, rng'[a]), buf |-> buf',
                   log |-> LogForOne(os', a, log'), result |-> result']

\* C12: two objects are independent under every interleaving of calls: a
\* call made for object a leaves every field of the other object and every
\* resource acquired for the other object as it was, acquires resources for
\* a only, passes the OS no handle other than a's own, leaves in a's fields
\* no handle the other object holds, and ends for a as it would have ended
\* had the other object's calls not been made.
C12_Step ==
    \A a \in {src'} : \A b \in sources \ {a} :
        /\ rng'[b] = rng[b]
        /\ defined'[b] = defined[b]
        /\ Len(os') >= Len(os)
        /\ \A h \in 1..Len(os) : os[h].owner = b => os'[h] = os[h]
        /\ \A h \in (Len(os) + 1)..Len(os') : os'[h].owner = a
        /\ \A i \in 1..Len(log') :
              log'[i].h # NULL => (IsHandle(os', log'[i].h) /\ os'[log'[i].h].owner = a)
        /\ \A h \in HandlesOf(rng'[a]) : IsHandle(os', h) /\ os'[h].owner = a
        /\ HandlesOf(rng'[a]) \cap HandlesOf(rng'[b]) = {}
        /\ SameAlone(a)
C12_InstancesIndependent == [][C12_Step]_vars

\* C12 witness: object 1 was released while object 2, initialized after it,
\* is active and its handles are open.
C12_Witness ==
    /\ sources = {1, 2} /\ Called("uninit") /\ src = 1
    /\ HandlesOf(rngBefore) # {} /\ \A h \in HandlesOf(rngBefore) : ~IsLive(os, h)
    /\ HandlesOf(rng[2]) # {} /\ \A h \in HandlesOf(rng[2]) : IsLive(os, h)
    /\ \E h \in HandlesOf(rngBefore), k \in HandlesOf(rng[2]) : h < k
====
